---- MODULE Spec2Model ----
(***************************************************************************)
(* Folder hierarchy and note binding of the note app                       *)
(* (backend/app/api/folders.py, backend/app/api/notes.py, the note writes  *)
(* of backend/app/api/transcription.py and the ORM models                  *)
(* backend/app/models/folder.py, backend/app/models/note.py).              *)
(*                                                                         *)
(* The record store is the SQLite database of core/config.py (the default  *)
(* DATABASE_URL).  What it contributes is modelled as SQLite and the       *)
(* SQLAlchemy ORM behave with these mappings:                              *)
(*   - a primary key "id INTEGER PRIMARY KEY" is given the value           *)
(*     max(id) + 1, or 1 in an empty table;                                *)
(*   - foreign keys are declared but not enforced (SQLite leaves them off  *)
(*     unless a connection turns them on), so a row may hold a parent_id   *)
(*     or folder_id that names no row;                                     *)
(*   - Session.delete(folder) deletes the rows of Folder.notes, whose      *)
(*     relationship declares cascade="all, delete-orphan", and sets to     *)
(*     NULL the parent_id of the rows of Folder.children, whose            *)
(*     relationship declares no delete cascade.                            *)
(* Folder.owner_id, the descriptions and the timestamps are written by no  *)
(* handler and read by no check; they are left out of the rows.            *)
(***************************************************************************)
EXTENDS Integers, Sequences, FiniteSets, TLC

VARIABLES
    folders,    \* the rows of table folders: id -> [name, parent_id]
    notes,      \* the rows of table notes: id -> note row
    req,        \* the request answered last
    resp,       \* the response to it
    task,       \* per server process: the request it is serving, and where
    started     \* the number of requests the server processes have taken

vars == <<folders, notes, req, resp, task, started>>

\* Python None and SQL NULL of an Optional[int] / nullable Integer column.
None == -1

\* ------------------------------------------------------------------ bounds
MaxFolderId == 3
MaxNoteId == 2
NumWorkers == 2
MaxRequests == 4
Names == {"A", "B"}
NoteTitles == {"T"}
OneName == {"A"}
NoteContents == {<<"c">>}
NoteTags == {<<"t">>}

FolderIdArgs == 1..MaxFolderId
NoteIdArgs == 1..MaxNoteId
\* an Optional[int] reference argument: None, 0, an id
RefArgs == {None, 0} \cup FolderIdArgs

\* ------------------------------------------------------------------ store
\* `if x:` on an Optional[int]
Truthy(x) == x # None /\ x # 0

Max(S) == CHOOSE m \in S : \A x \in S : x <= m

\* the id the table gives the next inserted row
NextId(rows) == IF DOMAIN rows = {} THEN 1 ELSE Max(DOMAIN rows) + 1

\* db.add(row); db.commit()
Insert(rows, row) ==
    [i \in DOMAIN rows \cup {NextId(rows)} |->
        IF i \in DOMAIN rows THEN rows[i] ELSE row]

Remove(rows, ids) == [i \in DOMAIN rows \ ids |-> rows[i]]

NoRows == [i \in {} |-> None]

\* db.query(Folder).filter(Folder.parent_id == id)
ChildrenOf(fs, id) == {c \in DOMAIN fs : fs[c].parent_id = id}

\* db.query(Note).filter(Note.folder_id == id)
NotesIn(ns, id) == {n \in DOMAIN ns : ns[n].folder_id = id}

\* ------------------------------------------------------------------ Folder
\* Folder.parent: the row parent_id names, if there is one
HasParent(fs, id) == fs[id].parent_id \in DOMAIN fs

\* Folder.path: the recursion of the property; a parent chain that comes back
\* to a folder it has passed never ends in Python other than by RecursionError
RECURSIVE PathFrom(_, _, _)
PathFrom(fs, id, seen) ==
    IF HasParent(fs, id)
    THEN LET p == fs[id].parent_id IN
         IF p \in seen
         THEN [ok |-> FALSE, path |-> ""]
         ELSE LET up == PathFrom(fs, p, seen \cup {p}) IN
              IF up.ok
              THEN [ok |-> TRUE, path |-> up.path \o "/" \o fs[id].name]
              ELSE up
    ELSE [ok |-> TRUE, path |-> fs[id].name]

path(fs, id) == PathFrom(fs, id, {id})

\* Folder.to_dict, as the body of a response
to_dict(fs, ns, id) ==
    [id |-> id,
     name |-> fs[id].name,
     parent_id |-> fs[id].parent_id,
     path |-> path(fs, id).path,
     notes_count |-> Cardinality(NotesIn(ns, id)),
     children_count |-> Cardinality(ChildrenOf(fs, id))]

\* ------------------------------------------------------------------ responses
NoBody == [message |-> ""]

Message(m) == [message |-> m]

\* raise HTTPException(status_code, detail)
Error(fs, ns, status, detail) ==
    [folders |-> fs, notes |-> ns,
     resp |-> [status |-> status, detail |-> detail, body |-> NoBody]]

\* an exception no handler catches: the framework answers 500
Raised(fs, ns, exception) == Error(fs, ns, 500, [msg |-> exception])

Ok(fs, ns, body) ==
    [folders |-> fs, notes |-> ns,
     resp |-> [status |-> 200, detail |-> [msg |-> ""], body |-> body]]

\* a handler that returns folder.to_dict() after its commit
OkFolder(fs, ns, id) ==
    IF path(fs, id).ok
    THEN Ok(fs, ns, to_dict(fs, ns, id))
    ELSE Raised(fs, ns, "RecursionError")

Detail(m) == [msg |-> m]

ConflictDetail == "Folder with this name already exists in the same location"

\* ------------------------------------------------------------------ create_folder
\* NameTaken that looks at the root scope only
NameTakenAtRoot(fs, name, parent_id) ==
    \E f \in DOMAIN fs :
        /\ fs[f].name = name
        /\ fs[f].parent_id = parent_id
        /\ parent_id = None

NameTaken(fs, name, parent_id) ==
    \E f \in DOMAIN fs : fs[f].name = name /\ fs[f].parent_id = parent_id

create_folder(fs, ns, data) ==
    IF Truthy(data.parent_id) /\ data.parent_id \notin DOMAIN fs
    THEN Error(fs, ns, 404, Detail("Parent folder not found"))
    ELSE IF NameTaken(fs, data.name, data.parent_id)
    THEN Error(fs, ns, 400,
               Detail(ConflictDetail))
    ELSE LET fs2 == Insert(fs, [name |-> data.name, parent_id |-> data.parent_id])
         IN OkFolder(fs2, ns, NextId(fs))

\* ------------------------------------------------------------------ get_folder
get_folder(fs, ns, id) ==
    IF id \notin DOMAIN fs
    THEN Error(fs, ns, 404, Detail("Folder not found"))
    ELSE OkFolder(fs, ns, id)

\* ------------------------------------------------------------------ update_folder
\* FolderUpdate / NoteUpdate: `data` holds the fields the request supplied
\* (dict(exclude_unset=True)); a field it does not supply reads as None
Supplied(data, field) == field \in DOMAIN data

ParentIdOf(data) == IF Supplied(data, "parent_id") THEN data.parent_id ELSE None

\* `folder_data.name and ...`: a name is supplied and is not the empty string
NameGiven(data) == Supplied(data, "name") /\ data.name # ""

\* lines 119-124: the walk from the new parent up the parent_id chain.
\* "circular": folder_id was met; "top": current_parent became None or 0, or
\* named no row; "endless": the chain closes on itself without meeting
\* folder_id, the while loop does not end.
\* AncestorWalk that never climbs past the new parent
AncestorWalkOneLevel(fs, current_parent, folder_id, seen) ==
    IF Truthy(current_parent) /\ current_parent = folder_id
    THEN "circular"
    ELSE "top"

RECURSIVE AncestorWalk(_, _, _, _)
AncestorWalk(fs, current_parent, folder_id, seen) ==
    IF ~Truthy(current_parent) THEN "top"
    ELSE IF current_parent = folder_id THEN "circular"
    ELSE IF current_parent \in seen THEN "endless"
    ELSE AncestorWalk(fs,
                      IF current_parent \in DOMAIN fs
                      THEN fs[current_parent].parent_id
                      ELSE None,
                      folder_id, seen \cup {current_parent})

\* CircularCheck with the walk left out
CircularCheckSkipped(fs, folder_id, new_parent) == "top"

CircularCheck(fs, folder_id, new_parent) ==
    AncestorWalk(fs, new_parent, folder_id, {})

\* line 130, the second criterion of the filter:
\*     Folder.parent_id == folder_data.parent_id or folder.parent_id
\* `==` binds tighter than `or`, so Python takes bool() of the SQL expression
\* Folder.parent_id == folder_data.parent_id:
\*   - with folder_data.parent_id None the expression is "parent_id IS NULL",
\*     whose bool() raises TypeError;
\*   - otherwise it is an `=` comparison, whose bool() is False, and the
\*     criterion becomes the Python value folder.parent_id: None is taken as
\*     the SQL constant NULL, an int is refused with ArgumentError.
ParentCriterion(data_parent_id, folder_parent_id) ==
    IF data_parent_id = None THEN "TypeError"
    ELSE IF folder_parent_id = None THEN "NULL"
    ELSE "ArgumentError"

\* a WHERE criterion selects a row only when it is true; NULL is not
SqlTrue(criterion) == criterion = "TRUE"

\* lines 128-132: the rows the name-conflict query returns
ExistingFolder(fs, folder_id, name, criterion) ==
    {f \in DOMAIN fs :
        fs[f].name = name /\ SqlTrue(criterion) /\ f # folder_id}

\* lines 138-140: setattr of every supplied field
ApplyFolderUpdate(folder, data) ==
    [name |-> IF Supplied(data, "name") THEN data.name ELSE folder.name,
     parent_id |-> IF Supplied(data, "parent_id")
                   THEN data.parent_id ELSE folder.parent_id]

\* lines 126-135: the name-conflict check against the loaded `folder`:
\* "ok", "conflict", or the exception the filter expression raises
NameCheck(fs, folder_id, folder, data) ==
    LET criterion == ParentCriterion(ParentIdOf(data), folder.parent_id) IN
    IF ~(NameGiven(data) /\ data.name # folder.name) THEN "ok"
    ELSE IF criterion \in {"TypeError", "ArgumentError"} THEN criterion
    ELSE IF ExistingFolder(fs, folder_id, data.name, criterion) # {}
    THEN "conflict"
    ELSE "ok"

\* lines 126-145
RenameAndCommit(fs, ns, folder_id, data) ==
    LET check == NameCheck(fs, folder_id, fs[folder_id], data) IN
    IF check = "conflict"
    THEN Error(fs, ns, 400,
           Detail(ConflictDetail))
    ELSE IF check # "ok"
    THEN Raised(fs, ns, check)
    ELSE OkFolder([fs EXCEPT ![folder_id] = ApplyFolderUpdate(fs[folder_id], data)],
                  ns, folder_id)

\* a request whose handler never returns
NoResponse(fs, ns) == Error(fs, ns, None, Detail("no response"))

update_folder(fs, ns, folder_id, data) ==
    IF folder_id \notin DOMAIN fs
    THEN Error(fs, ns, 404, Detail("Folder not found"))
    ELSE LET folder == fs[folder_id]
             new_parent == ParentIdOf(data)
         IN  IF new_parent # None /\ new_parent # folder.parent_id
             THEN IF new_parent \notin DOMAIN fs
                  THEN Error(fs, ns, 404, Detail("Parent folder not found"))
                  ELSE IF new_parent = folder_id
                  THEN Error(fs, ns, 400, Detail("Folder cannot be its own parent"))
                  ELSE LET walk == CircularCheck(fs, folder_id, new_parent) IN
                       IF walk = "circular"
                       THEN Error(fs, ns, 400,
                              Detail("Cannot move folder: would create circular reference"))
                       ELSE IF walk = "endless"
                       THEN NoResponse(fs, ns)
                       ELSE RenameAndCommit(fs, ns, folder_id, data)
             ELSE RenameAndCommit(fs, ns, folder_id, data)

\* ------------------------------------------------------------------ delete_folder
\* lines 171-172: db.delete(folder); db.commit().  The unit of work deletes
\* the notes of Folder.notes (cascade="all, delete-orphan"), sets parent_id
\* of the rows of Folder.children to NULL (no delete cascade is declared on
\* that relationship) and deletes the folder's row.
\* DeleteFolderRow that sets parent_id of every remaining row to NULL
DeleteFolderRowRerootAll(fs, folder_id) ==
    [f \in DOMAIN fs \ {folder_id} |-> [fs[f] EXCEPT !.parent_id = None]]

DeleteFolderRow(fs, folder_id) ==
    [f \in DOMAIN fs \ {folder_id} |->
        IF fs[f].parent_id = folder_id
        THEN [fs[f] EXCEPT !.parent_id = None]
        ELSE fs[f]]

DeleteFolderNotes(ns, folder_id) == Remove(ns, NotesIn(ns, folder_id))

\* delete_folder with the check of the notes left out
delete_folder_unchecked_notes(fs, ns, folder_id, force) ==
    IF folder_id \notin DOMAIN fs
    THEN Error(fs, ns, 404, Detail("Folder not found"))
    ELSE LET children_count == Cardinality(ChildrenOf(fs, folder_id))
         IN  IF children_count > 0 /\ ~force
             THEN Error(fs, ns, 400,
                    [msg |-> "Folder has {children_count} subfolders. Use force=true to delete recursively.",
                     children_count |-> children_count])
             ELSE Ok(DeleteFolderRow(fs, folder_id),
                     DeleteFolderNotes(ns, folder_id),
                     Message("Folder deleted successfully"))

delete_folder(fs, ns, folder_id, force) ==
    IF folder_id \notin DOMAIN fs
    THEN Error(fs, ns, 404, Detail("Folder not found"))
    ELSE LET children_count == Cardinality(ChildrenOf(fs, folder_id))
             notes_count == Cardinality(NotesIn(ns, folder_id))
         IN  IF children_count > 0 /\ ~force
             THEN Error(fs, ns, 400,
                    [msg |-> "Folder has {children_count} subfolders. Use force=true to delete recursively.",
                     children_count |-> children_count])
             ELSE IF notes_count > 0 /\ ~force
             THEN Error(fs, ns, 400,
                    [msg |-> "Folder has {notes_count} notes. Use force=true to delete all notes.",
                     notes_count |-> notes_count])
             ELSE Ok(DeleteFolderRow(fs, folder_id),
                     DeleteFolderNotes(ns, folder_id),
                     Message("Folder deleted successfully"))

\* ------------------------------------------------------------------ get_folder_notes
\* the rows of a query's .all(), taken in id order
RECURSIVE all(_)
all(ids) ==
    IF ids = {} THEN <<>>
    ELSE LET first == CHOOSE i \in ids : \A j \in ids : i <= j
         IN <<first>> \o all(ids \ {first})

Range(seq) == {seq[i] : i \in DOMAIN seq}

\* Note.to_dict
note_to_dict(ns, id) == [id |-> id] @@ ns[id]

\* get_folder_ids that does not descend below the children
get_folder_ids_one_level(fs, parent_id, calls) ==
    [ok |-> TRUE, folder_ids |-> <<parent_id>> \o all(ChildrenOf(fs, parent_id))]

\* lines 208-214: `calls` holds the ids of the calls in progress.  A child
\* that is one of them starts the same calls again and the recursion has no
\* end other than Python's RecursionError: ok is then FALSE.
RECURSIVE get_folder_ids(_, _, _)
RECURSIVE ExtendWithChildren(_, _, _, _)
get_folder_ids(fs, parent_id, calls) ==
    ExtendWithChildren(fs, all(ChildrenOf(fs, parent_id)), <<parent_id>>, calls)

\* lines 212-214: the for loop over the children
ExtendWithChildren(fs, children, folder_ids, calls) ==
    IF children = <<>>
    THEN [ok |-> TRUE, folder_ids |-> folder_ids]
    ELSE LET child == Head(children) IN
         IF child \in calls
         THEN [ok |-> FALSE, folder_ids |-> folder_ids]
         ELSE LET below == get_folder_ids(fs, child, calls \cup {child}) IN
              IF below.ok
              THEN ExtendWithChildren(fs, Tail(children),
                                      folder_ids \o below.folder_ids, calls)
              ELSE below

NoteList(ns, ids) == [notes |-> [i \in DOMAIN all(ids) |-> note_to_dict(ns, all(ids)[i])]]

\* get_folder_notes that never includes the subfolders
get_folder_notes_direct(fs, ns, folder_id, include_subfolders) ==
    IF folder_id \notin DOMAIN fs
    THEN Error(fs, ns, 404, Detail("Folder not found"))
    ELSE Ok(fs, ns, NoteList(ns, NotesIn(ns, folder_id)))

get_folder_notes(fs, ns, folder_id, include_subfolders) ==
    IF folder_id \notin DOMAIN fs
    THEN Error(fs, ns, 404, Detail("Folder not found"))
    ELSE IF include_subfolders
    THEN LET found == get_folder_ids(fs, folder_id, {folder_id}) IN
         IF found.ok
         THEN Ok(fs, ns, NoteList(ns,
                    {n \in DOMAIN ns : ns[n].folder_id \in Range(found.folder_ids)}))
         ELSE Raised(fs, ns, "RecursionError")
    ELSE Ok(fs, ns, NoteList(ns, NotesIn(ns, folder_id)))

\* ------------------------------------------------------------------ get_folders
\* ORDER BY folders.name: the column's collation puts "A" before "B"; rows of
\* equal name come in the order of the table scan, by id
NameOrder == <<"A", "B">>

NameRank(name) == CHOOSE i \in DOMAIN NameOrder : NameOrder[i] = name

RECURSIVE order_by_name(_, _)
order_by_name(fs, ids) ==
    IF ids = {} THEN <<>>
    ELSE LET first == CHOOSE i \in ids : \A j \in ids :
                         \/ NameRank(fs[i].name) < NameRank(fs[j].name)
                         \/ (fs[i].name = fs[j].name /\ i <= j)
         IN <<first>> \o order_by_name(fs, ids \ {first})

\* [folder.to_dict() for folder in folders]
FolderList(fs, ns, rows) ==
    IF \A i \in DOMAIN rows : path(fs, rows[i]).ok
    THEN Ok(fs, ns, [folders |-> [i \in DOMAIN rows |-> to_dict(fs, ns, rows[i])]])
    ELSE Raised(fs, ns, "RecursionError")

\* get_folders that lists the root folders whenever no parent_id is given
get_folders_roots_only(fs, ns, parent_id, include_children) ==
    IF parent_id # None
    THEN FolderList(fs, ns, order_by_name(fs, ChildrenOf(fs, parent_id)))
    ELSE FolderList(fs, ns, order_by_name(fs, ChildrenOf(fs, None)))

\* lines 80-90
get_folders(fs, ns, parent_id, include_children) ==
    IF parent_id # None
    THEN FolderList(fs, ns, order_by_name(fs, ChildrenOf(fs, parent_id)))
    ELSE IF ~include_children
    THEN FolderList(fs, ns, order_by_name(fs, ChildrenOf(fs, None)))
    ELSE FolderList(fs, ns, order_by_name(fs, DOMAIN fs))

\* ------------------------------------------------------------------ get_folder_tree
\* lines 179-186: as in get_folder_ids, `calls` holds the ids of the calls in
\* progress and ok is FALSE when the recursion has no end other than
\* RecursionError, raised by get_children or by the path of child.to_dict()
RECURSIVE get_children(_, _, _, _)
RECURSIVE AppendChildren(_, _, _, _, _)
get_children(fs, ns, parent_id, calls) ==
    AppendChildren(fs, ns, all(ChildrenOf(fs, parent_id)), <<>>, calls)

\* lines 182-185: the for loop over the children
AppendChildren(fs, ns, children, result, calls) ==
    IF children = <<>>
    THEN [ok |-> TRUE, result |-> result]
    ELSE LET child == Head(children) IN
         IF child \in calls \/ ~path(fs, child).ok
         THEN [ok |-> FALSE, result |-> result]
         ELSE LET below == get_children(fs, ns, child, calls \cup {child}) IN
              IF below.ok
              THEN AppendChildren(fs, ns, Tail(children),
                       Append(result, to_dict(fs, ns, child)
                                        @@ [children |-> below.result]),
                       calls)
              ELSE below

\* lines 188-195: the value the handler returns
get_folder_tree(fs, ns, folder_id) ==
    IF folder_id \notin DOMAIN fs
    THEN Error(fs, ns, 404, Detail("Folder not found"))
    ELSE IF ~path(fs, folder_id).ok
    THEN Raised(fs, ns, "RecursionError")
    ELSE LET below == get_children(fs, ns, folder_id, {folder_id}) IN
         IF below.ok
         THEN Ok(fs, ns, [folders |-> <<to_dict(fs, ns, folder_id)
                                          @@ [children |-> below.result]>>])
         ELSE Raised(fs, ns, "RecursionError")

\* ------------------------------------------------------------------ notes
\* A note row: title, content (<<>> for None, <<text>> otherwise), folder_id,
\* tags (a sequence), is_favorite, is_archived.

\* lines 53-72 of notes.py
create_note(fs, ns, data) ==
    IF Truthy(data.folder_id) /\ data.folder_id \notin DOMAIN fs
    THEN Error(fs, ns, 404, Detail("Folder not found"))
    ELSE LET ns2 == Insert(ns, [title |-> data.title,
                                content |-> data.content,
                                folder_id |-> data.folder_id,
                                tags |-> data.tags,
                                is_favorite |-> data.is_favorite,
                                is_archived |-> FALSE])
         IN Ok(fs, ns2, [id |-> NextId(ns)] @@ ns2[NextId(ns)])

FolderIdOf(data) == IF Supplied(data, "folder_id") THEN data.folder_id ELSE None

\* lines 137-139: setattr of every supplied field
\* ApplyNoteUpdate that takes a folder_id not supplied as None
ApplyNoteUpdateFolderUnset(note, data) ==
    [field \in DOMAIN note |->
        IF Supplied(data, field) THEN data[field]
        ELSE IF field = "folder_id" THEN None
        ELSE note[field]]

ApplyNoteUpdate(note, data) ==
    [field \in DOMAIN note |->
        IF Supplied(data, field) THEN data[field] ELSE note[field]]

update_note(fs, ns, note_id, data) ==
    IF note_id \notin DOMAIN ns
    THEN Error(fs, ns, 404, Detail("Note not found"))
    ELSE IF /\ FolderIdOf(data) # None
            /\ FolderIdOf(data) # ns[note_id].folder_id
            /\ FolderIdOf(data) \notin DOMAIN fs
    THEN Error(fs, ns, 404, Detail("Folder not found"))
    ELSE LET ns2 == [ns EXCEPT ![note_id] = ApplyNoteUpdate(ns[note_id], data)]
         IN Ok(fs, ns2, [id |-> note_id] @@ ns2[note_id])

delete_note(fs, ns, note_id) ==
    IF note_id \notin DOMAIN ns
    THEN Error(fs, ns, 404, Detail("Note not found"))
    ELSE Ok(fs, Remove(ns, {note_id}), Message("Note deleted successfully"))

\* move_note that writes the folder reference before it validates it
move_note_write_first(fs, ns, note_id, folder_id) ==
    IF note_id \notin DOMAIN ns
    THEN Error(fs, ns, 404, Detail("Note not found"))
    ELSE IF folder_id # None /\ folder_id \notin DOMAIN fs
    THEN Error(fs, [ns EXCEPT ![note_id].folder_id = folder_id],
               404, Detail("Folder not found"))
    ELSE Ok(fs, [ns EXCEPT ![note_id].folder_id = folder_id],
            [message |-> "Note moved successfully",
             note_id |-> note_id, folder_id |-> folder_id])

\* move_note that builds the moved note anew and loses its flags
move_note_resets_flags(fs, ns, note_id, folder_id) ==
    IF note_id \notin DOMAIN ns
    THEN Error(fs, ns, 404, Detail("Note not found"))
    ELSE IF folder_id # None /\ folder_id \notin DOMAIN fs
    THEN Error(fs, ns, 404, Detail("Folder not found"))
    ELSE Ok(fs, [ns EXCEPT ![note_id].folder_id = folder_id,
                           ![note_id].is_favorite = FALSE],
            [message |-> "Note moved successfully",
             note_id |-> note_id, folder_id |-> folder_id])

move_note(fs, ns, note_id, folder_id) ==
    IF note_id \notin DOMAIN ns
    THEN Error(fs, ns, 404, Detail("Note not found"))
    ELSE IF folder_id # None /\ folder_id \notin DOMAIN fs
    THEN Error(fs, ns, 404, Detail("Folder not found"))
    ELSE Ok(fs, [ns EXCEPT ![note_id].folder_id = folder_id],
            [message |-> "Note moved successfully",
             note_id |-> note_id, folder_id |-> folder_id])

\* copy_note that copies the favorite flag too
copy_note_keeps_favorite(fs, ns, note_id, folder_id) ==
    IF note_id \notin DOMAIN ns
    THEN Error(fs, ns, 404, Detail("Note not found"))
    ELSE IF folder_id # None /\ folder_id \notin DOMAIN fs
    THEN Error(fs, ns, 404, Detail("Folder not found"))
    ELSE LET original_note == ns[note_id]
             ns2 == Insert(ns, [title |-> original_note.title \o " (Copy)",
                                content |-> original_note.content,
                                folder_id |-> folder_id,
                                tags |-> original_note.tags,
                                is_favorite |-> original_note.is_favorite,
                                is_archived |-> FALSE])
         IN Ok(fs, ns2, [message |-> "Note copied successfully",
                         note_id |-> NextId(ns)])

copy_note(fs, ns, note_id, folder_id) ==
    IF note_id \notin DOMAIN ns
    THEN Error(fs, ns, 404, Detail("Note not found"))
    ELSE IF folder_id # None /\ folder_id \notin DOMAIN fs
    THEN Error(fs, ns, 404, Detail("Folder not found"))
    ELSE LET original_note == ns[note_id]
             ns2 == Insert(ns, [title |-> original_note.title \o " (Copy)",
                                content |-> original_note.content,
                                folder_id |-> folder_id,
                                tags |-> original_note.tags,
                                is_favorite |-> FALSE,
                                is_archived |-> FALSE])
         IN Ok(fs, ns2, [message |-> "Note copied successfully",
                         note_id |-> NextId(ns)])

\* ------------------------------------------------------------------ transcription
\* what `await transcribe_audio(file, language)` comes back with (lines
\* 31-72 of transcription.py): the text, or the HTTPException of an upload
\* that is refused (400) or of a transcription that failed (500)
Texts == {"x"}

TranscriptionResults ==
    {[status |-> 200, text |-> text, detail |-> ""] : text \in Texts}
    \cup {[status |-> 400, text |-> "", detail |-> "File must be an audio file"],
          [status |-> 500, text |-> "", detail |-> "Transcription failed"]}

\* transcribe_and_create_note that adds the note before it looks at the
\* result of the transcription
transcribe_and_create_note_adds_first(fs, ns, data, transcription_result) ==
    LET ns2 == Insert(ns, [title |-> data.title,
                           content |-> <<transcription_result.text>>,
                           folder_id |-> data.folder_id,
                           tags |-> <<"transcribed", "audio">>,
                           is_favorite |-> FALSE,
                           is_archived |-> FALSE])
    IN  IF transcription_result.status # 200
        THEN Error(fs, ns2, transcription_result.status,
                   Detail(transcription_result.detail))
        ELSE Ok(fs, ns2, [text |-> transcription_result.text,
                          note_id |-> NextId(ns),
                          note_title |-> data.title])

\* transcribe_and_create_note from line 90 on, the folder validated
transcribe_and_create_note(fs, ns, data, transcription_result) ==
    IF transcription_result.status # 200
    THEN Error(fs, ns, transcription_result.status,
               Detail(transcription_result.detail))
    ELSE LET ns2 == Insert(ns, [title |-> data.title,
                                content |-> <<transcription_result.text>>,
                                folder_id |-> data.folder_id,
                                tags |-> <<"transcribed", "audio">>,
                                is_favorite |-> FALSE,
                                is_archived |-> FALSE])
         IN Ok(fs, ns2, [text |-> transcription_result.text,
                         note_id |-> NextId(ns),
                         note_title |-> data.title])

\* `if note.content`: neither None nor the empty string
HasContent(note) == note.content # <<>> /\ note.content # <<"">>

\* lines 128-131
NewContent(note, append, text) ==
    IF append /\ HasContent(note)
    THEN <<note.content[1] \o "\n\n" \o text>>
    ELSE <<text>>

\* lines 134-137.  Note.tags is a plain JSON column (models/note.py:20): the
\* session writes it when the attribute is assigned, as in line 137, and does
\* not see a list changed in place, as by the append of line 135, so that the
\* UPDATE of line 139 leaves the column as it is and the refresh of line 140
\* reads it back.
TagsWritten(note) == note.tags = <<>>

\* transcribe_and_update_note from line 125 on; `note` is the row as loaded
\* at line 120
transcribe_and_update_note(fs, ns, note_id, note, append, transcription_result) ==
    IF transcription_result.status # 200
    THEN Error(fs, ns, transcription_result.status,
               Detail(transcription_result.detail))
    ELSE IF note_id \notin DOMAIN ns
    THEN Raised(fs, ns, "StaleDataError")
    ELSE Ok(fs,
            [ns EXCEPT ![note_id].content =
                           NewContent(note, append, transcription_result.text),
                       ![note_id].tags =
                           IF TagsWritten(note) THEN <<"transcribed">> ELSE @],
            [text |-> transcription_result.text,
             note_id |-> note_id,
             note_title |-> ns[note_id].title])

\* ------------------------------------------------------------------ requests
\* One request served from start to end: the handlers of folders.py and
\* notes.py contain no await, so on one event loop none of them is
\* interleaved with another.
NoData == [field \in {} |-> None]

Request(op, id, data, force) ==
    [op |-> op, id |-> id, data |-> data, force |-> force]

InBounds(result) ==
    /\ DOMAIN result.folders \subseteq 1..MaxFolderId
    /\ DOMAIN result.notes \subseteq 1..MaxNoteId

Serve(request, result) ==
    /\ InBounds(result)
    /\ folders' = result.folders
    /\ notes' = result.notes
    /\ req' = request
    /\ resp' = result.resp
    /\ UNCHANGED <<task, started>>

\* the bodies a FolderUpdate can carry: name and parent_id each supplied or not
FolderUpdates ==
    {NoData}
    \cup {[name |-> n] : n \in Names}
    \cup {[parent_id |-> p] : p \in RefArgs}
    \cup {[name |-> n, parent_id |-> p] : n \in Names, p \in RefArgs}

\* the bodies of FolderUpdate that move a folder and leave its name alone
Reparents == {[parent_id |-> p] : p \in RefArgs}

NoteUpdates == {NoData} \cup {[folder_id |-> p] : p \in RefArgs}

CreateFolder(names) ==
    \E name \in names, parent_id \in RefArgs :
        LET data == [name |-> name, parent_id |-> parent_id] IN
        Serve(Request("create_folder", None, data, FALSE),
              create_folder(folders, notes, data))

GetFolder ==
    \E id \in FolderIdArgs :
        Serve(Request("get_folder", id, NoData, FALSE),
              get_folder(folders, notes, id))

UpdateFolder(updates) ==
    \E id \in FolderIdArgs, data \in updates :
        Serve(Request("update_folder", id, data, FALSE),
              update_folder(folders, notes, id, data))

DeleteFolder ==
    \E id \in FolderIdArgs, force \in BOOLEAN :
        Serve(Request("delete_folder", id, NoData, force),
              delete_folder(folders, notes, id, force))

CreateNote ==
    \E title \in NoteTitles, folder_id \in RefArgs,
       content \in NoteContents, tags \in NoteTags :
        LET data == [title |-> title, content |-> content, folder_id |-> folder_id,
                     tags |-> tags, is_favorite |-> TRUE] IN
        Serve(Request("create_note", None, data, FALSE),
              create_note(folders, notes, data))

UpdateNote ==
    \E id \in NoteIdArgs, data \in NoteUpdates :
        Serve(Request("update_note", id, data, FALSE),
              update_note(folders, notes, id, data))

DeleteNote ==
    \E id \in NoteIdArgs :
        Serve(Request("delete_note", id, NoData, FALSE),
              delete_note(folders, notes, id))

MoveNote ==
    \E id \in NoteIdArgs, folder_id \in RefArgs :
        Serve(Request("move_note", id, [folder_id |-> folder_id], FALSE),
              move_note(folders, notes, id, folder_id))

GetFolderNotes ==
    \E id \in FolderIdArgs, include_subfolders \in BOOLEAN :
        Serve(Request("get_folder_notes", id,
                      [include_subfolders |-> include_subfolders], FALSE),
              get_folder_notes(folders, notes, id, include_subfolders))

GetFolders ==
    \E parent_id \in RefArgs, include_children \in BOOLEAN :
        Serve(Request("get_folders", None,
                      [parent_id |-> parent_id,
                       include_children |-> include_children], FALSE),
              get_folders(folders, notes, parent_id, include_children))

GetFolderTree ==
    \E id \in FolderIdArgs :
        Serve(Request("get_folder_tree", id, NoData, FALSE),
              get_folder_tree(folders, notes, id))

CopyNote ==
    \E id \in NoteIdArgs, folder_id \in RefArgs :
        Serve(Request("copy_note", id, [folder_id |-> folder_id], FALSE),
              copy_note(folders, notes, id, folder_id))

\* ------------------------------------------------------------------ server processes
\* The application served by more than one process on one database: the app
\* object of main.py run by several uvicorn workers or instances.  (Inside
\* one process the handlers of folders.py do not interleave: they hold no
\* await.)  No handler takes a lock, and a session opens its transaction at
\* its first write, which is in the commit.  Each process serves one request
\* at a time, a handler's database statements are the steps, and between two
\* statements of one process the others may run theirs.  A process has its
\* own Session: `session` is its identity map, id -> the row as first loaded;
\* a query that returns a row already in the map returns the mapped object
\* with the attributes it was loaded with.
Workers == 1..NumWorkers

IdleTask ==
    [pc |-> "idle", request |-> Request("none", None, NoData, FALSE),
     session |-> NoRows, current_parent |-> None]

Begin(w, request, pc) ==
    /\ task' = [task EXCEPT ![w] = [IdleTask EXCEPT !.pc = pc,
                                                   !.request = request]]
    /\ UNCHANGED <<folders, notes, req, resp>>

Goto(w, pc) ==
    /\ task' = [task EXCEPT ![w].pc = pc]
    /\ UNCHANGED <<folders, notes, req, resp>>

\* the handler returns or raises: the process is free again
Respond(w, request, result) ==
    /\ InBounds(result)
    /\ folders' = result.folders
    /\ notes' = result.notes
    /\ req' = request
    /\ resp' = result.resp
    /\ task' = [task EXCEPT ![w] = IdleTask]

Take(w) ==
    /\ task[w].pc = "idle"
    /\ started < MaxRequests
    /\ started' = started + 1

\* db.query(Folder).filter(Folder.id == id).first() in a session
Loaded(session, fs, id) ==
    IF id \notin DOMAIN fs THEN session
    ELSE IF id \in DOMAIN session THEN session
    ELSE [i \in DOMAIN session \cup {id} |->
            IF i \in DOMAIN session THEN session[i] ELSE fs[i]]

\* create_folder, lines 45-49
CreateFolderParent(w) ==
    /\ Take(w)
    /\ \E name \in Names, parent_id \in RefArgs :
        LET data == [name |-> name, parent_id |-> parent_id]
            request == Request("create_folder", None, data, FALSE)
        IN  IF Truthy(parent_id) /\ parent_id \notin DOMAIN folders
            THEN Respond(w, request,
                    Error(folders, notes, 404, Detail("Parent folder not found")))
            ELSE Begin(w, request, "create_folder:52")

\* create_folder, lines 51-58
CreateFolderExisting(w) ==
    /\ task[w].pc = "create_folder:52"
    /\ UNCHANGED started
    /\ LET data == task[w].request.data IN
       IF NameTaken(folders, data.name, data.parent_id)
       THEN Respond(w, task[w].request,
               Error(folders, notes, 400, Detail(ConflictDetail)))
       ELSE Goto(w, "create_folder:67")

\* create_folder, lines 60-71
CreateFolderCommit(w) ==
    /\ task[w].pc = "create_folder:67"
    /\ UNCHANGED started
    /\ LET data == task[w].request.data IN
       Respond(w, task[w].request,
               OkFolder(Insert(folders, [name |-> data.name,
                                         parent_id |-> data.parent_id]),
                        notes, NextId(folders)))

\* update_folder, lines 104-106
UpdateFolderLoad(w) ==
    /\ Take(w)
    /\ \E id \in FolderIdArgs, data \in Reparents :
        LET request == Request("update_folder", id, data, FALSE) IN
        IF id \notin DOMAIN folders
        THEN Respond(w, request,
                Error(folders, notes, 404, Detail("Folder not found")))
        ELSE /\ task' = [task EXCEPT ![w] =
                    [IdleTask EXCEPT !.pc = "update_folder:109",
                                     !.request = request,
                                     !.session = Loaded(NoRows, folders, id)]]
             /\ UNCHANGED <<folders, notes, req, resp>>

\* update_folder, lines 126-135 on the loaded folder: no row is read unless
\* the filter expression is built, and then the criterion is NULL
UpdateFolderNameCheck(w, pc) ==
    LET t == task[w]
        check == NameCheck(folders, t.request.id, t.session[t.request.id],
                           t.request.data)
    IN  IF check = "conflict"
        THEN Respond(w, t.request,
                Error(folders, notes, 400, Detail(ConflictDetail)))
        ELSE IF check # "ok"
        THEN Respond(w, t.request, Raised(folders, notes, check))
        ELSE Goto(w, pc)

\* update_folder, lines 108-119
UpdateFolderParent(w) ==
    /\ task[w].pc = "update_folder:109"
    /\ UNCHANGED started
    /\ LET t == task[w]
           folder_id == t.request.id
           new_parent == ParentIdOf(t.request.data)
       IN  IF new_parent # None /\ new_parent # t.session[folder_id].parent_id
           THEN IF new_parent \notin DOMAIN folders
                THEN Respond(w, t.request,
                        Error(folders, notes, 404, Detail("Parent folder not found")))
                ELSE IF new_parent = folder_id
                THEN Respond(w, t.request,
                        Error(folders, notes, 400,
                              Detail("Folder cannot be its own parent")))
                ELSE /\ task' = [task EXCEPT
                            ![w].pc = "update_folder:120",
                            ![w].session = Loaded(t.session, folders, new_parent),
                            ![w].current_parent = new_parent]
                     /\ UNCHANGED <<folders, notes, req, resp>>
           ELSE UpdateFolderNameCheck(w, "update_folder:138")

\* update_folder, lines 120-124: one turn of the while loop
UpdateFolderWalk(w) ==
    /\ task[w].pc = "update_folder:120"
    /\ UNCHANGED started
    /\ LET t == task[w]
           cur == t.current_parent
           session == Loaded(t.session, folders, cur)
       IN  IF ~Truthy(cur)
           THEN UpdateFolderNameCheck(w, "update_folder:138")
           ELSE IF cur = t.request.id
           THEN Respond(w, t.request,
                   Error(folders, notes, 400,
                      Detail("Cannot move folder: would create circular reference")))
           ELSE /\ task' = [task EXCEPT
                       ![w].session = session,
                       ![w].current_parent =
                           IF cur \in DOMAIN folders
                           THEN session[cur].parent_id ELSE None]
                /\ UNCHANGED <<folders, notes, req, resp>>

\* update_folder, lines 137-145: the UPDATE carries the columns whose value
\* differs from the loaded one and addresses the row by id; when no row has
\* that id any more the flush (or the refresh) raises
UpdateFolderCommit(w) ==
    /\ task[w].pc = "update_folder:138"
    /\ UNCHANGED started
    /\ LET t == task[w]
           folder_id == t.request.id
           data == t.request.data
           changed == {f \in DOMAIN data : data[f] # t.session[folder_id][f]}
       IN  IF folder_id \notin DOMAIN folders
           THEN Respond(w, t.request,
                   Raised(folders, notes,
                          IF changed = {} THEN "InvalidRequestError"
                          ELSE "StaleDataError"))
           ELSE Respond(w, t.request,
                   OkFolder([folders EXCEPT ![folder_id] =
                                [f \in DOMAIN @ |->
                                    IF f \in changed THEN data[f] ELSE @[f]]],
                            notes, folder_id))

\* delete_folder, lines 150-152
DeleteFolderLoad(w) ==
    /\ Take(w)
    /\ \E id \in FolderIdArgs, force \in BOOLEAN :
        LET request == Request("delete_folder", id, NoData, force) IN
        IF id \notin DOMAIN folders
        THEN Respond(w, request,
                Error(folders, notes, 404, Detail("Folder not found")))
        ELSE Begin(w, request, "delete_folder:155")

\* delete_folder, lines 154-160
DeleteFolderChildren(w) ==
    /\ task[w].pc = "delete_folder:155"
    /\ UNCHANGED started
    /\ LET t == task[w]
           children_count == Cardinality(ChildrenOf(folders, t.request.id))
       IN  IF children_count > 0 /\ ~t.request.force
           THEN Respond(w, t.request,
                   Error(folders, notes, 400,
                      [msg |-> "Folder has {children_count} subfolders. Use force=true to delete recursively.",
                       children_count |-> children_count]))
           ELSE Goto(w, "delete_folder:163")

\* delete_folder, lines 162-168
DeleteFolderNotesCount(w) ==
    /\ task[w].pc = "delete_folder:163"
    /\ UNCHANGED started
    /\ LET t == task[w]
           notes_count == Cardinality(NotesIn(notes, t.request.id))
       IN  IF notes_count > 0 /\ ~t.request.force
           THEN Respond(w, t.request,
                   Error(folders, notes, 400,
                      [msg |-> "Folder has {notes_count} notes. Use force=true to delete all notes.",
                       notes_count |-> notes_count]))
           ELSE Goto(w, "delete_folder:171")

\* delete_folder, lines 170-174: the flush loads Folder.notes and
\* Folder.children by the folder's id as the tables are then
DeleteFolderCommit(w) ==
    /\ task[w].pc = "delete_folder:171"
    /\ UNCHANGED started
    /\ Respond(w, task[w].request,
               Ok(DeleteFolderRow(folders, task[w].request.id),
                  DeleteFolderNotes(notes, task[w].request.id),
                  Message("Folder deleted successfully")))

\* ------------------------------------------------------------------ requests in flight
\* The handlers of transcription.py await the transcription, which runs in a
\* thread pool (transcription_service.py:37-43): while one of them waits, the
\* event loop of the same process serves other requests.  task[w] is then a
\* request in flight, from the await to the rest of its handler.

\* the notes created here: without content and tags, or with both
NoteInputs ==
    {[title |-> title, content |-> <<>>, folder_id |-> None, tags |-> <<>>,
      is_favorite |-> FALSE] : title \in NoteTitles}
    \cup {[title |-> title, content |-> content, folder_id |-> None,
           tags |-> tags, is_favorite |-> FALSE] :
              title \in NoteTitles, content \in NoteContents, tags \in NoteTags}

CreateUnfiledNote ==
    \E data \in NoteInputs :
        Serve(Request("create_note", None, data, FALSE),
              create_note(folders, notes, data))

CreateRootFolder ==
    \E name \in OneName :
        LET data == [name |-> name, parent_id |-> None] IN
        Serve(Request("create_folder", None, data, FALSE),
              create_folder(folders, notes, data))

\* transcribe_and_create_note, lines 83-90, up to the await
TranscribeAndCreateNoteFolder(w) ==
    /\ Take(w)
    /\ \E title \in NoteTitles, folder_id \in RefArgs :
        LET request == Request("transcribe_and_create_note", None,
                               [title |-> title, folder_id |-> folder_id], FALSE)
        IN  IF Truthy(folder_id) /\ folder_id \notin DOMAIN folders
            THEN Respond(w, request,
                    Error(folders, notes, 404, Detail("Folder not found")))
            ELSE Begin(w, request, "transcribe_and_create_note:90")

\* transcribe_and_create_note, lines 90-108, from the await on
TranscribeAndCreateNoteInsert(w) ==
    /\ task[w].pc = "transcribe_and_create_note:90"
    /\ UNCHANGED started
    /\ \E transcription_result \in TranscriptionResults :
        Respond(w, task[w].request,
                transcribe_and_create_note(folders, notes, task[w].request.data,
                                           transcription_result))

\* transcribe_and_update_note, lines 119-125, up to the await
TranscribeAndUpdateNoteLoad(w) ==
    /\ Take(w)
    /\ \E note_id \in NoteIdArgs, append \in BOOLEAN :
        LET request == Request("transcribe_and_update_note", note_id,
                               [append |-> append], FALSE)
        IN  IF note_id \notin DOMAIN notes
            THEN Respond(w, request,
                    Error(folders, notes, 404, Detail("Note not found")))
            ELSE /\ task' = [task EXCEPT ![w] =
                        [IdleTask EXCEPT !.pc = "transcribe_and_update_note:125",
                                         !.request = request,
                                         !.session = Loaded(NoRows, notes, note_id)]]
                 /\ UNCHANGED <<folders, notes, req, resp>>

\* transcribe_and_update_note, lines 125-146, from the await on
TranscribeAndUpdateNoteWrite(w) ==
    /\ task[w].pc = "transcribe_and_update_note:125"
    /\ UNCHANGED started
    /\ \E transcription_result \in TranscriptionResults :
        LET t == task[w] IN
        Respond(w, t.request,
                transcribe_and_update_note(folders, notes, t.request.id,
                                           t.session[t.request.id],
                                           t.request.data.append,
                                           transcription_result))

Init ==
    /\ folders = NoRows
    /\ notes = NoRows
    /\ req = Request("none", None, NoData, FALSE)
    /\ resp = [status |-> None, detail |-> Detail(""), body |-> NoBody]
    /\ task = [w \in Workers |-> IdleTask]
    /\ started = 0

\* the folder hierarchy: every request of folders.py that reads or writes it
Next ==
    \/ CreateFolder(Names)
    \/ GetFolder
    \/ UpdateFolder(FolderUpdates)
    \/ DeleteFolder
    \/ GetFolders

Spec == Init /\ [][Next]_vars

\* folders and the notes bound to them: the writes of folders.py and notes.py
NextNotes ==
    \/ CreateFolder(OneName)
    \/ UpdateFolder(Reparents)
    \/ DeleteFolder
    \/ CreateNote
    \/ UpdateNote
    \/ DeleteNote
    \/ MoveNote
    \/ CopyNote
    \/ GetFolderNotes

SpecNotes == Init /\ [][NextNotes]_vars

\* several server processes on one database
NextWorkers ==
    \E w \in Workers :
        \/ CreateFolderParent(w)
        \/ CreateFolderExisting(w)
        \/ CreateFolderCommit(w)
        \/ UpdateFolderLoad(w)
        \/ UpdateFolderParent(w)
        \/ UpdateFolderWalk(w)
        \/ UpdateFolderCommit(w)
        \/ DeleteFolderLoad(w)
        \/ DeleteFolderChildren(w)
        \/ DeleteFolderNotesCount(w)
        \/ DeleteFolderCommit(w)

SpecWorkers == Init /\ [][NextWorkers]_vars

\* The store two reparents served by two processes leave when each has
\* finished its walk before the other commits (update_folder(1, {parent_id:
\* 2}) and update_folder(2, {parent_id: 1}) on two root folders): SpecWorkers
\* reaches it.  The requests served from then on meet parent references in a
\* cycle.
RacedCycle ==
    [i \in {1, 2} |->
        IF i = 1 THEN [name |-> "A", parent_id |-> 2]
        ELSE [name |-> "B", parent_id |-> 1]]

InitCycles ==
    /\ folders \in {NoRows, RacedCycle}
    /\ notes = NoRows
    /\ req = Request("none", None, NoData, FALSE)
    /\ resp = [status |-> None, detail |-> Detail(""), body |-> NoBody]
    /\ task = [w \in Workers |-> IdleTask]
    /\ started = 0

NextCycles ==
    \/ CreateFolder(OneName)
    \/ UpdateFolder(Reparents)
    \/ DeleteFolder
    \/ GetFolder
    \/ GetFolders
    \/ GetFolderNotes
    \/ GetFolderTree

SpecCycles == InitCycles /\ [][NextCycles]_vars

\* the transcription requests of one process, each in two steps around its
\* await, and the requests served while one of them waits
NextTranscription ==
    \/ CreateRootFolder
    \/ DeleteFolder
    \/ CreateUnfiledNote
    \/ TranscribeAndCreateNoteFolder(1)
    \/ TranscribeAndCreateNoteInsert(1)
    \/ TranscribeAndUpdateNoteLoad(1)
    \/ TranscribeAndUpdateNoteWrite(1)

SpecTranscription == Init /\ [][NextTranscription]_vars

\* ------------------------------------------------------------------ properties
\* the folders below `id`, at any depth
RECURSIVE DownClosure(_, _)
DownClosure(fs, S) ==
    LET S2 == S \cup {c \in DOMAIN fs : fs[c].parent_id \in S}
    IN IF S2 = S THEN S ELSE DownClosure(fs, S2)

Descendants(fs, id) == DownClosure(fs, {id}) \ {id}

Subtree(fs, id) == DownClosure(fs, {id})

\* the folders reached from `id` by following parent_id one or more times
RECURSIVE UpClosure(_, _)
UpClosure(fs, S) ==
    LET S2 == S \cup ({fs[x].parent_id : x \in S} \cap DOMAIN fs)
    IN IF S2 = S THEN S ELSE UpClosure(fs, S2)

Ancestors(fs, id) == UpClosure(fs, {fs[id].parent_id} \cap DOMAIN fs)

\* C1: no two distinct folders have the same name and the same parent
\* reference (the root scope, parent_id None, is one scope).
C1_UniqueNameInParent ==
    \A f, g \in DOMAIN folders :
        f # g => ~(/\ folders[f].name = folders[g].name
                   /\ folders[f].parent_id = folders[g].parent_id)

\* C2: the parent references form a forest: no folder is its own parent and
\* following parent references from a folder never comes back to it.
C2_Forest ==
    \A f \in DOMAIN folders :
        /\ folders[f].parent_id # f
        /\ f \notin Ancestors(folders, f)

\* C2, witness: a reparent was applied and left a chain three folders deep.
C2_Witness ==
    /\ req.op = "update_folder"
    /\ resp.status = 200
    /\ Supplied(req.data, "parent_id")
    /\ req.id \in DOMAIN folders
    /\ folders[req.id].parent_id = req.data.parent_id
    /\ \E f \in DOMAIN folders : Cardinality(Ancestors(folders, f)) = 2

\* C3: after a successful delete with force = true of a folder that has child
\* folders or notes, the folder, every folder below it and every note bound to
\* any of them are gone.
C3_ForceDeleteRemovesSubtree ==
    [][(/\ req'.op = "delete_folder"
        /\ req'.force
        /\ resp'.status = 200
        /\ ChildrenOf(folders, req'.id) \cup NotesIn(notes, req'.id) # {})
       => /\ Subtree(folders, req'.id) \cap DOMAIN folders' = {}
          /\ \A n \in DOMAIN notes :
                notes[n].folder_id \in Subtree(folders, req'.id)
                    => n \notin DOMAIN notes']_vars

\* a delete without force of an existing folder that has children or notes
BlockedDelete ==
    /\ req'.op = "delete_folder"
    /\ ~req'.force
    /\ req'.id \in DOMAIN folders
    /\ ChildrenOf(folders, req'.id) \cup NotesIn(notes, req'.id) # {}

C5_ReparentIntoSubtreeFails ==
    [][(/\ req'.op = "update_folder"
        /\ req'.id \in DOMAIN folders
        /\ Supplied(req'.data, "parent_id")
        /\ req'.data.parent_id \in Subtree(folders, req'.id))
       => /\ resp'.status = 400
          /\ resp'.detail.msg \in
                {"Folder cannot be its own parent",
                 "Cannot move folder: would create circular reference"}
          /\ folders' = folders
          /\ notes' = notes]_vars

\* C5, witness: a reparent to a folder two levels below was refused.
C5_Witness ==
    /\ req.op = "update_folder"
    /\ resp.status = 400
    /\ Supplied(req.data, "parent_id")
    /\ req.data.parent_id \in Descendants(folders, req.id)
    /\ req.data.parent_id \notin ChildrenOf(folders, req.id)

\* C6: every note whose folder reference is set references an existing folder.
C6_NotesReferenceFolders ==
    \A n \in DOMAIN notes :
        notes[n].folder_id # None => notes[n].folder_id \in DOMAIN folders

\* C7: a create_folder that commits never adds a folder whose name another
\* folder with the same parent already has, however the checks and commits
\* of concurrent requests are interleaved.
C7_CommittedCreateIsUnique ==
    [][\A w \in Workers :
          (task[w].pc = "create_folder:67" /\ task'[w].pc = "idle")
          => ~NameTaken(folders, task[w].request.data.name,
                        task[w].request.data.parent_id)]_vars

\* C8: a reparent that is written, however it is interleaved with another
\* reparent or with a delete, leaves the moved folder outside any cycle and
\* with a parent that exists.
C8_WrittenReparentKeepsForest ==
    [][\A w \in Workers :
          (/\ task[w].pc = "update_folder:138"
           /\ task'[w].pc = "idle"
           /\ folders' # folders)
          => LET f == task[w].request.id IN
             /\ folders'[f].parent_id # None
                    => folders'[f].parent_id \in DOMAIN folders'
             /\ folders'[f].parent_id # f
             /\ f \notin Ancestors(folders', f)]_vars

\* C9, the round trip of the claim: renaming a root folder A to B, with no
\* other root folder named B, makes its path "B".
C9_RenamedRootHasNewPath ==
    [][(/\ req'.op = "update_folder"
        /\ req'.data = [name |-> "B"]
        /\ req'.id \in DOMAIN folders
        /\ folders[req'.id] = [name |-> "A", parent_id |-> None]
        /\ ~NameTaken(folders, "B", None))
       => /\ req'.id \in DOMAIN folders'
          /\ path(folders', req'.id).path = "B"]_vars

\* C10: a reparent that keeps the folder's name fails with a conflict, and
\* changes nothing, when another folder of that name has the new parent.
C10_ReparentOntoSameNameFails ==
    [][(/\ req'.op = "update_folder"
        /\ req'.id \in DOMAIN folders
        /\ Supplied(req'.data, "parent_id")
        /\ (Supplied(req'.data, "name")
                => req'.data.name = folders[req'.id].name)
        /\ \E g \in DOMAIN folders \ {req'.id} :
              /\ folders[g].name = folders[req'.id].name
              /\ folders[g].parent_id = req'.data.parent_id)
       => /\ resp'.status = 400
          /\ resp'.detail.msg = ConflictDetail
          /\ folders' = folders]_vars

\* C11: a rename to a name other than the current one fails with a conflict
\* exactly when another folder of the new name has the target parent (the
\* supplied parent, or else the folder's current one); otherwise it succeeds
\* and the folder has the new name.  Taken for requests whose new parent, if
\* one is supplied, exists and lies outside the folder's subtree.
C11_RenameConflictExactlyWhenTaken ==
    [][(/\ req'.op = "update_folder"
        /\ req'.id \in DOMAIN folders
        /\ Supplied(req'.data, "name")
        /\ req'.data.name # folders[req'.id].name
        /\ (Supplied(req'.data, "parent_id")
              => /\ req'.data.parent_id \in DOMAIN folders
                 /\ req'.data.parent_id \notin Subtree(folders, req'.id)))
       => LET target == IF Supplied(req'.data, "parent_id")
                        THEN req'.data.parent_id
                        ELSE folders[req'.id].parent_id
              taken == \E g \in DOMAIN folders \ {req'.id} :
                          /\ folders[g].name = req'.data.name
                          /\ folders[g].parent_id = target
          IN  IF taken
              THEN /\ resp'.status = 400
                   /\ resp'.detail.msg = ConflictDetail
                   /\ folders' = folders
              ELSE /\ resp'.status = 200
                   /\ folders'[req'.id].name = req'.data.name]_vars

\* C12: creating a folder whose name another folder with the same parent
\* reference already has fails with a conflict and inserts nothing.
C12_CreateSameNameSameParentFails ==
    [][(/\ req'.op = "create_folder"
        /\ \E g \in DOMAIN folders :
              /\ folders[g].name = req'.data.name
              /\ folders[g].parent_id = req'.data.parent_id)
       => /\ resp'.status = 400
          /\ resp'.detail.msg = ConflictDetail
          /\ folders' = folders
          /\ notes' = notes]_vars

\* C12, witness: a create was refused as a conflict below an existing parent.
C12_Witness ==
    /\ req.op = "create_folder"
    /\ resp.status = 400
    /\ resp.detail.msg = ConflictDetail
    /\ req.data.parent_id \in DOMAIN folders
    /\ \E g \in DOMAIN folders :
          /\ folders[g].name = req.data.name
          /\ folders[g].parent_id = req.data.parent_id

\* C13: creating a folder under a supplied parent id that names no folder,
\* 0 included, fails as not found and inserts nothing.
C13_CreateUnderMissingParentFails ==
    [][(/\ req'.op = "create_folder"
        /\ req'.data.parent_id # None
        /\ req'.data.parent_id \notin DOMAIN folders)
       => /\ resp'.status = 404
          /\ folders' = folders]_vars

\* C14: a successful delete leaves every folder outside the deleted folder's
\* subtree, and every note bound to no folder of that subtree, in place and
\* unchanged.
C14_DeleteLeavesTheRestUnchanged ==
    [][(/\ req'.op = "delete_folder"
        /\ resp'.status = 200)
       => /\ \A f \in DOMAIN folders \ Subtree(folders, req'.id) :
                /\ f \in DOMAIN folders'
                /\ folders'[f] = folders[f]
          /\ \A n \in DOMAIN notes :
                notes[n].folder_id \notin Subtree(folders, req'.id)
                    => /\ n \in DOMAIN notes'
                       /\ notes'[n] = notes[n]]_vars

\* C14, witness: a forced delete was served and a folder with a parent and
\* a note are still in the store.
C14_Witness ==
    /\ req.op = "delete_folder"
    /\ req.force
    /\ resp.status = 200
    /\ \E f \in DOMAIN folders : folders[f].parent_id \in DOMAIN folders
    /\ notes # NoRows

\* C15: in a store without cycles, the ids get_folder_ids computes for a
\* folder start with the folder, are the folder and everything below it and
\* nothing else, list each of them once, and the computation ends.
C15_FolderIdsAreTheSubtreeOnce ==
    \A f \in DOMAIN folders :
        LET found == get_folder_ids(folders, f, {f}) IN
        /\ found.ok
        /\ Head(found.folder_ids) = f
        /\ Range(found.folder_ids) = Subtree(folders, f)
        /\ \A c \in DOMAIN folders :
              folders[c].parent_id \in Range(found.folder_ids)
                  => c \in Range(found.folder_ids)
        /\ Len(found.folder_ids) = Cardinality(Subtree(folders, f))

\* C15, witness: the notes of a folder and its subfolders were asked for
\* where the folder has a child that has a child.
C15_Witness ==
    /\ req.op = "get_folder_notes"
    /\ req.data.include_subfolders
    /\ resp.status = 200
    /\ \E c \in ChildrenOf(folders, req.id) : ChildrenOf(folders, c) # {}

\* C16: for an existing folder get_folder_notes returns, each once, exactly
\* the notes bound to the folder when subfolders are not included, and
\* exactly the notes bound to the folder or to a folder below it when they
\* are.
C16_FolderNotesAreTheBoundNotes ==
    [][(/\ req'.op = "get_folder_notes"
        /\ req'.id \in DOMAIN folders)
       => /\ resp'.status = 200
          /\ LET returned == resp'.body.notes
                 scope == IF req'.data.include_subfolders
                          THEN Subtree(folders, req'.id)
                          ELSE {req'.id}
                 bound == {n \in DOMAIN notes : notes[n].folder_id \in scope}
             IN  /\ {returned[i].id : i \in DOMAIN returned} = bound
                 /\ Len(returned) = Cardinality(bound)
                 /\ \A i \in DOMAIN returned :
                       returned[i] = note_to_dict(notes, returned[i].id)]_vars

\* C16, witness: asked with subfolders, a folder returned a note that is
\* bound to a folder below it.
C16_Witness ==
    /\ req.op = "get_folder_notes"
    /\ req.data.include_subfolders
    /\ resp.status = 200
    /\ \E i \in DOMAIN resp.body.notes :
          resp.body.notes[i].folder_id \in Descendants(folders, req.id)

\* C17: a request that is answered with an error (400 or 404) leaves the
\* folders and the notes exactly as they were.
C17_ErrorsLeaveTheStoreUnchanged ==
    [][resp'.status \in {400, 404}
       => /\ folders' = folders
          /\ notes' = notes]_vars

\* C17, witness: a move of an existing note to a folder that does not exist
\* was refused.
C17_Witness ==
    /\ req.op = "move_note"
    /\ req.id \in DOMAIN notes
    /\ resp.status = 404
    /\ resp.detail.msg = "Folder not found"

\* C18: a successful folder update or note update gives every supplied field
\* the supplied value (None included), keeps every field that is not
\* supplied, and changes no other row.
C18_UpdateWritesOnlySuppliedFields ==
    [][/\ (req'.op = "update_folder" /\ resp'.status = 200)
          => /\ DOMAIN folders' = DOMAIN folders
             /\ \A field \in DOMAIN folders[req'.id] :
                   folders'[req'.id][field]
                      = IF Supplied(req'.data, field)
                        THEN req'.data[field]
                        ELSE folders[req'.id][field]
             /\ \A f \in DOMAIN folders \ {req'.id} : folders'[f] = folders[f]
             /\ notes' = notes
       /\ (req'.op = "update_note" /\ resp'.status = 200)
          => /\ DOMAIN notes' = DOMAIN notes
             /\ \A field \in DOMAIN notes[req'.id] :
                   notes'[req'.id][field]
                      = IF Supplied(req'.data, field)
                        THEN req'.data[field]
                        ELSE notes[req'.id][field]
             /\ \A n \in DOMAIN notes \ {req'.id} : notes'[n] = notes[n]
             /\ folders' = folders]_vars

\* C18, witness: a note update that supplied no field was served on a note
\* that is bound to a folder.
C18_Witness ==
    /\ req.op = "update_note"
    /\ req.data = NoData
    /\ resp.status = 200
    /\ notes[req.id].folder_id \in DOMAIN folders

\* C19: a note create, update (to a folder other than the current one), move
\* or copy that supplies a folder id naming no folder, 0 included, fails as
\* not found and writes nothing.
C19_NoteWriteToMissingFolderFails ==
    [][(/\ req'.op \in {"create_note", "update_note", "move_note", "copy_note"}
        /\ (req'.op # "create_note" => req'.id \in DOMAIN notes)
        /\ Supplied(req'.data, "folder_id")
        /\ req'.data.folder_id # None
        /\ req'.data.folder_id \notin DOMAIN folders
        /\ (req'.op = "update_note"
              => req'.data.folder_id # notes[req'.id].folder_id))
       => /\ resp'.status = 404
          /\ notes' = notes
          /\ folders' = folders]_vars

\* C20: a successful copy adds exactly one note: its title is the original's
\* followed by " (Copy)", its content and tags are the original's, it is not
\* a favorite and it is bound to the target folder; the original, every
\* other note and every folder are unchanged.
C20_CopyAddsOneSuffixedNote ==
    [][(/\ req'.op = "copy_note"
        /\ resp'.status = 200)
       => /\ \E new \in DOMAIN notes' \ DOMAIN notes :
                /\ DOMAIN notes' = DOMAIN notes \cup {new}
                /\ notes'[new].title = notes[req'.id].title \o " (Copy)"
                /\ notes'[new].content = notes[req'.id].content
                /\ notes'[new].tags = notes[req'.id].tags
                /\ notes'[new].is_favorite = FALSE
                /\ notes'[new].folder_id = req'.data.folder_id
          /\ \A n \in DOMAIN notes : notes'[n] = notes[n]
          /\ folders' = folders]_vars

\* C20, witness: a favorite note with content and tags was copied into a
\* folder.
C20_Witness ==
    /\ req.op = "copy_note"
    /\ resp.status = 200
    /\ req.data.folder_id \in DOMAIN folders
    /\ req.id \in DOMAIN notes
    /\ notes[req.id].is_favorite
    /\ notes[req.id].content # <<>>
    /\ notes[req.id].tags # <<>>
    /\ resp.body.note_id \in DOMAIN notes

\* C21: a successful move sets the note's folder reference to the folder id
\* of the request (None unfiles the note) and leaves the note's title,
\* content, tags, favorite and archived flags, every other note and every
\* folder unchanged.
C21_MoveSetsOnlyTheFolder ==
    [][(/\ req'.op = "move_note"
        /\ resp'.status = 200)
       => /\ DOMAIN notes' = DOMAIN notes
          /\ notes'[req'.id].folder_id = req'.data.folder_id
          /\ \A field \in DOMAIN notes[req'.id] \ {"folder_id"} :
                notes'[req'.id][field] = notes[req'.id][field]
          /\ \A n \in DOMAIN notes \ {req'.id} : notes'[n] = notes[n]
          /\ folders' = folders]_vars

\* C21, witness: a favorite note with tags was unfiled by a move
\* while another note exists.
C21_Witness ==
    /\ req.op = "move_note"
    /\ resp.status = 200
    /\ req.data.folder_id = None
    /\ notes[req.id].is_favorite
    /\ notes[req.id].tags # <<>>
    /\ DOMAIN notes # {req.id}

\* C22: the folder list holds exactly the folders whose parent_id is the
\* given parent_id when one is given (whatever include_children says);
\* without one it holds exactly the root folders when include_children is
\* false and every folder when it is true; each folder is listed once, as its
\* to_dict, and the list is ordered by name.
C22_ListIsTheSelectionByName ==
    req.op = "get_folders"
    => /\ resp.status = 200
       /\ LET listed == resp.body.folders
              expected ==
                  IF req.data.parent_id # None
                  THEN {f \in DOMAIN folders :
                            folders[f].parent_id = req.data.parent_id}
                  ELSE IF ~req.data.include_children
                  THEN {f \in DOMAIN folders : folders[f].parent_id = None}
                  ELSE DOMAIN folders
          IN  /\ {listed[i].id : i \in DOMAIN listed} = expected
              /\ Len(listed) = Cardinality(expected)
              /\ \A i \in DOMAIN listed :
                    listed[i] = to_dict(folders, notes, listed[i].id)
              /\ \A i, j \in DOMAIN listed :
                    i < j => NameRank(listed[i].name) <= NameRank(listed[j].name)

\* C22, witness: every folder was listed, a folder below another among them,
\* and the order by name is not the order by id.
C22_Witness ==
    /\ req.op = "get_folders"
    /\ req.data.parent_id = None
    /\ req.data.include_children
    /\ resp.status = 200
    /\ \E i \in DOMAIN resp.body.folders :
          resp.body.folders[i].parent_id \in DOMAIN folders
    /\ \E i, j \in DOMAIN resp.body.folders :
          /\ i < j
          /\ resp.body.folders[i].id > resp.body.folders[j].id

\* C25: a reparent whose walk up from the new parent comes to a parent
\* reference that names no folder, before it comes to the folder itself or to
\* a root, fails as not found (404) and changes nothing.
C25_BrokenWalkFailsNotFound ==
    [][(/\ req'.op = "update_folder"
        /\ req'.id \in DOMAIN folders
        /\ Supplied(req'.data, "parent_id")
        /\ req'.data.parent_id \in DOMAIN folders
        /\ req'.data.parent_id # req'.id
        /\ req'.data.parent_id # folders[req'.id].parent_id
        /\ LET chain == {req'.data.parent_id}
                            \cup Ancestors(folders, req'.data.parent_id)
           IN  /\ req'.id \notin chain
               /\ \E x \in chain :
                     /\ folders[x].parent_id # None
                     /\ folders[x].parent_id \notin DOMAIN folders)
       => /\ resp'.status = 404
          /\ folders' = folders]_vars

\* C27: in every state that folder creates, updates and deletes served one
\* after another lead to, every folder whose parent_id is set names a folder
\* of the store in it.
C27_NoDanglingParent ==
    \A f \in DOMAIN folders :
        folders[f].parent_id # None => HasParent(folders, f)

\* the folders whose chain of parent references comes back to a folder it
\* has passed
OnCycle(fs, id) == \E a \in {id} \cup Ancestors(fs, id) : a \in Ancestors(fs, a)

\* C23: a request for a folder whose parent references run into a cycle is
\* answered with the error Inconsistent: the ascent of the path is cut off
\* and reported, it does not go on without bound.
C23_CyclicPathIsReportedInconsistent ==
    (/\ req.op = "get_folder"
     /\ req.id \in DOMAIN folders
     /\ OnCycle(folders, req.id))
    => resp.detail.msg = "Inconsistent"

\* C24: on a store whose parent references contain a cycle the traversals of
\* the folders below a folder (get_folder_ids for the notes of a folder with
\* its subfolders, get_children for the folder tree) come to an end having
\* visited each folder at most once: the request is answered, not left to a
\* recursion without end.
C24_TraversalsEndOnACycle ==
    (/\ \/ req.op = "get_folder_tree"
        \/ (req.op = "get_folder_notes" /\ req.data.include_subfolders)
     /\ req.id \in DOMAIN folders
     /\ OnCycle(folders, req.id))
    => resp.detail.msg # "RecursionError"

\* C26: whatever requests are served while a note-binding write waits
\* between its folder lookup and its insert, a delete of the target folder
\* among them, no committed state holds a note bound to a folder that has
\* existed and exists no longer.  (Folder ids start at 1: a folder_id of 0
\* has never named a folder and is left aside here.)
C26_NoNoteOfADeletedFolder ==
    \A n \in DOMAIN notes :
        Truthy(notes[n].folder_id) => notes[n].folder_id \in DOMAIN folders

\* C28: when the transcription fails, the request that awaited it ends with
\* the folders and the notes exactly as they were: no note is created, and
\* the note to update keeps its content and tags.
C28_FailedTranscriptionWritesNothing ==
    [][\A w \in Workers :
          (/\ task[w].pc \in {"transcribe_and_create_note:90",
                              "transcribe_and_update_note:125"}
           /\ task'[w].pc = "idle"
           /\ resp'.detail.msg \in {"Transcription failed",
                                    "File must be an audio file"})
          => /\ notes' = notes
             /\ folders' = folders]_vars

\* C28, witness: a transcription for a note with content failed, and another
\* for a new note in an existing folder.
C28_Witness ==
    /\ resp.status = 500
    /\ resp.detail.msg = "Transcription failed"
    /\ \/ /\ req.op = "transcribe_and_update_note"
          /\ req.id \in DOMAIN notes
          /\ HasContent(notes[req.id])
          /\ req.data.append
       \/ /\ req.op = "transcribe_and_create_note"
          /\ req.data.folder_id \in DOMAIN folders

\* C29: a successful transcribe-and-update of a note that no other request
\* wrote meanwhile sets the content to the old content, a blank line and the
\* text when append is true and the old content is not empty, and to the text
\* alone otherwise; afterwards the tags of the note hold "transcribed", once.
C29_TranscribedUpdateAppendsAndTags ==
    [][\A w \in Workers :
          (/\ task[w].pc = "transcribe_and_update_note:125"
           /\ task'[w].pc = "idle"
           /\ resp'.status = 200
           /\ task[w].request.id \in DOMAIN notes
           /\ task[w].session[task[w].request.id] = notes[task[w].request.id])
          => LET old == notes[task[w].request.id]
                 new == notes'[task[w].request.id]
                 text == resp'.body.text
             IN  /\ new.content =
                       IF task[w].request.data.append
                          /\ old.content # <<>> /\ old.content # <<"">>
                       THEN <<old.content[1] \o "\n\n" \o text>>
                       ELSE <<text>>
                 /\ Cardinality({i \in DOMAIN new.tags :
                                    new.tags[i] = "transcribed"}) = 1]_vars

====
